---------------------------- MODULE Spec2Model ----------------------------
(***************************************************************************)
(* A model of the output side of gamepad-bridge (src/src/usb_gamepad.rs):  *)
(* the two writers that copy UniversalGamepad values to the USB HID gadget *)
(* file /dev/hidg0.                                                        *)
(*                                                                         *)
(*   SpecCont  Gamepad::write_to_gadget_continously, fed by a reader that  *)
(*             publishes into a flume channel.                             *)
(*   SpecInt   Gamepad::write_to_gadget_intervalic, sampling a mutex       *)
(*             protected slot on a monotonic clock, with a cancel channel. *)
(*                                                                         *)
(* A UniversalGamepad value is identified with the index of the input      *)
(* report it was decoded from (1, 2, 3, ...), so that every published      *)
(* value is distinct and "newer" is "greater".                             *)
(***************************************************************************)
EXTENDS Integers, Sequences, FiniteSets

VARIABLES
    (* ---- shared by both writers ---- *)
    usb_output,     \* the local Vec<u8> usb_output: <<>> is the empty Vec
    hidg0,          \* the buffer of every write_all call on /dev/hidg0, in order
    last_io,        \* how the last open or write_all ended: "none", "ok", "open_err", "write_err"
    exit_code,      \* 0 while the process runs, else the code passed to exit
    (* ---- write_to_gadget_continously ---- *)
    chan,           \* the flume channel: the queued UniversalGamepad values
    sender_alive,   \* whether a Sender of the channel still exists
    published,      \* how many values the reader has sent so far
    cpc,            \* where write_to_gadget_continously stands
    gamepad,        \* the loop variable of `for gamepad in receiver.iter()`
    msg_count,      \* the local msg_count
    all_msgs,       \* the local all_msgs: what receiver.drain() took
    behind,         \* history: the values queued behind `gamepad` when it was taken
    (* ---- write_to_gadget_intervalic ---- *)
    slot,           \* the Arc<Mutex<UniversalGamepad>> value
    clock,          \* the monotonic clock, in ns since `start`
    ticks,          \* how many times the clock has advanced
    interval_ns,    \* interval.as_nanos()
    dev_num,        \* max_deviation = dev_num / DevDen
    cancel,         \* the cancel channel: the queued bools
    cancel_alive,   \* whether the cancel channel's Sender still exists
    ipc,            \* where write_to_gadget_intervalic stands
    lock_held,      \* whether the writer holds the mutex of the slot
    interval_counts_before,
    interval_counts_now,
    elapsed_ns,
    code_ran,
    last_emit,      \* history: elapsed_ns of the iteration of the last write, -1 if none
    min_gap,        \* history: the smallest elapsed_ns difference of two successive writes, -1 if none
    checked,        \* history: the last timing check, [prev, emit], or <<>>: the cycle index
                    \*          of the write before it (0 if none) and whether it chose to write
    cancelled_at,   \* history: the number of writes made when cancel was signalled, -1 if not
    samples,        \* history: how often the slot was sampled since the last write
    sampled,        \* history: the slot value of the last sample, -1 if none since
    (* ---- the functions called once per report or once per run ---- *)
    ppc,            \* which of them the session calls and whether it has returned
    input,          \* process_input: the array read from hidapi, indexed from 0
    model,          \* process_input: the GamepadModel
    output,         \* process_input: the UniversalGamepad it fills
    output_before,  \* history: `output` as it was when process_input was called
    args,           \* from_cmdline_args: env::args(), args[1] in the source is args[2] here
    OUTPUT_GAMEPADS,\* from_cmdline_args: the table of Gamepad descriptors
    selected,       \* from_cmdline_args: the index of the descriptor returned, 0 if none
    stdout,         \* from_cmdline_args: the lines printed, in order
    descriptor,     \* the Gamepad `self` whose decoder or encoder is called
    bt_input,       \* bt_input_to_universal_gamepad: the Vec<u8> read from the controller
    universal,      \* universal_gamepad_to_usb_output: the UniversalGamepad to encode
    call_result,    \* how the call ended: a value returned or a panic, <<>> before
    device_list,    \* get_hid_gamepad: api.device_list(), the HID devices enumerated
    error_info,     \* get_hid_gamepad: the local Vec of unsupported devices
    located,        \* get_hid_gamepad: the Result it returned, <<>> before
    ctrls,          \* archive main: the GameControllerCollection (first, second)
    loading_show,   \* archive main: the animation string, as its length
    threads,        \* archive main: per slot, the reader threads spawned for it
    mpc,            \* archive main: position in the body of its loop
    fpc,            \* _bt_program_flow: where it stands
    tpc,            \* the scan thread running bt_scan_on: where it stands
    ctrlc,          \* _bt_program_flow: the AtomicBool, true until Ctrl-C
    handler_set,    \* whether the Ctrl-C handler is installed
    request_scan_stop, \* bt_scan_on: its second argument
    stream,         \* bluetoothctl's stdout: lines written and not yet read, whether it is open
    scan_output,    \* the shared Vec<String>, as the number of lines pushed
    calls_after_clear \* history: handle_bt_scan_output calls begun after ctrlc was cleared

cvars == <<chan, sender_alive, published, cpc, gamepad, msg_count, all_msgs, behind>>
ivars == <<slot, clock, ticks, interval_ns, dev_num, cancel, cancel_alive, ipc,
           lock_held, interval_counts_before, interval_counts_now, elapsed_ns,
           code_ran, last_emit, min_gap, checked, cancelled_at, samples, sampled>>
svars == <<usb_output, hidg0, last_io, exit_code>>
decvars == <<input, model, output, output_before>>
selvars == <<args, OUTPUT_GAMEPADS, selected, stdout>>
fnvars == <<descriptor, bt_input, universal, call_result>>
locvars == <<device_list, error_info, located>>
thrvars == <<ctrls, loading_show, threads, mpc>>
btvars == <<fpc, tpc, ctrlc, handler_set, request_scan_stop, stream, scan_output,
            calls_after_clear>>
xvars == <<locvars, thrvars, btvars>>
pvars == <<ppc, decvars, selvars, fnvars, xvars>>
vars == <<svars, cvars, ivars, pvars>>

(* ------------------------------ bounds -------------------------------- *)
\* how many values the reader publishes at most
MaxPub == 8
\* how many values the channel holds at most
MaxQueue == 7
\* the clock advances at most MaxTime times
MaxTime == 6
\* the interval is 1 .. MaxInterval ns, or LongInterval
MaxInterval == 3
\* max_deviation is one of 0/DevDen .. DevDen/DevDen, with DevDen = 2^DevBits, so
\* that each is an f32 value
DevBits == 2
\* how many times the reader overwrites the slot at most
MaxSlot == 1
\* how many values are sent on the cancel channel at most
MaxCancel == 1

\* byte 11 of the input reports is 0 .. MaxByte11
MaxByte11 == 3
\* an alias of a descriptor has 1 .. MaxAliasLen characters
MaxAliasLen == 1
\* a command line argument has 0 .. MaxArgLen characters
MaxArgLen == 3
\* how many arguments follow the first one at most
MaxExtraArgs == 1
\* min_bt_report_size of a descriptor and the length of a report read from the
\* controller are at most MaxReportSize
MaxReportSize == 12
\* report_length of a descriptor is 1 .. MaxReportLength
MaxReportLength == 4
\* how many HID devices are enumerated at most
MaxDevices == 3
\* how many lines bluetoothctl writes at most
MaxLines == 2

DevDen == 2^DevBits

\* An interval too long for its nanoseconds to be f32 values: 2^25 ns, 33.5 ms.
LongInterval == 2^25

(* ------------------------- program constants -------------------------- *)
\* the bits of the significand of an f32 (`as f32`)
MantissaBits == 24
\* `if msg_count > 5`
DrainThreshold == 5
\* `else if msg_count > 1`
SkipThreshold == 1

(* ------------------------------ helpers ------------------------------- *)
\* Gamepad::universal_gamepad_to_usb_output: the descriptor's encoder, called
\* through the function pointer; the report carries the value it encodes.
universal_gamepad_to_usb_output(g) == <<"report", g>>

(* ----------------------- the reader (publisher) ----------------------- *)
\* The reader decodes the next input report and sends it into the channel.
Publish ==
    /\ cpc \notin {"idle", "done"}
    /\ sender_alive
    /\ exit_code = 0
    /\ published < MaxPub
    /\ Len(chan) < MaxQueue
    /\ published' = published + 1
    /\ chan' = Append(chan, published + 1)
    /\ UNCHANGED <<sender_alive, cpc, gamepad, msg_count, all_msgs, behind>>
    /\ UNCHANGED <<svars, ivars, pvars>>

\* The reader thread ends and drops its Sender: the channel is closed.
DropSender ==
    /\ cpc \notin {"idle", "done"}
    /\ sender_alive
    /\ exit_code = 0
    /\ sender_alive' = FALSE
    /\ UNCHANGED <<chan, published, cpc, gamepad, msg_count, all_msgs, behind>>
    /\ UNCHANGED <<svars, ivars, pvars>>

(* -------------------- write_to_gadget_continously --------------------- *)
\* Variant: a receive that leaves the yielded value in the channel.
RecvPeek(q) == q

\* What receiver.iter() leaves in the channel when it yields the head.
RecvRest(q) == Tail(q)

\* Variant: the iterator ends as soon as the channel is empty.
IterEndsWhenEmpty(q, alive) == q = <<>>

\* When receiver.iter() ends: the channel is empty and every Sender is dropped.
IterEnds(q, alive) == q = <<>> /\ ~alive

\* `for gamepad in receiver.iter()`: blocks while the channel is empty and a
\* sender exists, takes the oldest value, ends when the channel is closed and empty.
CRecv ==
    /\ cpc = "recv"
    /\ exit_code = 0
    /\ \/ /\ chan # <<>>
          /\ gamepad' = Head(chan)
          /\ chan' = RecvRest(chan)
          /\ behind' = Tail(chan)
          /\ cpc' = "len"
          /\ all_msgs' = <<>>
       \/ /\ IterEnds(chan, sender_alive)
          /\ cpc' = "done"
          /\ UNCHANGED <<gamepad, chan, behind, all_msgs>>
    /\ UNCHANGED <<sender_alive, published, msg_count>>
    /\ UNCHANGED <<svars, ivars, pvars>>

\* `let msg_count = receiver.len();` and the branch on it.
CLen ==
    /\ cpc = "len"
    /\ msg_count' = Len(chan)
    /\ cpc' = IF Len(chan) > DrainThreshold THEN "drain"
              ELSE IF Len(chan) > SkipThreshold THEN "recv"   \* continue
              ELSE "encode"
    /\ UNCHANGED <<chan, sender_alive, published, gamepad, all_msgs, behind>>
    /\ UNCHANGED <<svars, ivars, pvars>>

\* `let all_msgs = receiver.drain().enumerate();` and the loop over it, which
\* only counts: the drained values are dropped and `gamepad` stays what
\* receiver.iter() yielded.
CDrain ==
    /\ cpc = "drain"
    /\ all_msgs' = chan
    /\ chan' = <<>>
    /\ cpc' = "encode"
    /\ UNCHANGED <<sender_alive, published, gamepad, msg_count, behind>>
    /\ UNCHANGED <<svars, ivars, pvars>>

\* `let usb_output = self.universal_gamepad_to_usb_output(&gamepad);`
CEncode ==
    /\ cpc = "encode"
    /\ usb_output' = universal_gamepad_to_usb_output(gamepad)
    /\ cpc' = "open"
    /\ UNCHANGED <<chan, sender_alive, published, gamepad, msg_count, all_msgs, behind>>
    /\ UNCHANGED <<hidg0, last_io, exit_code, ivars, pvars>>

\* What the Err arm of the open does: `print_error_and_exit!(.., err, 1)` ends
\* the process with the given code; the arm has no File to go on with.
OpenErrArm == "exit"

\* Variant: a write error that ends the process like an open error.
WriteErrArmExits == "exit"

\* What the Err arm of write_all does: `println!(..)`, and the loop goes on.
WriteErrArm == "continue"

\* `File::options().write(true).append(false).open("/dev/hidg0")`
COpen ==
    /\ cpc = "open"
    /\ \E ok \in BOOLEAN :
          /\ last_io' = IF ok THEN "ok" ELSE "open_err"
          /\ IF ok \/ OpenErrArm = "continue"
                THEN /\ cpc' = IF ok THEN "write" ELSE "recv"
                     /\ UNCHANGED exit_code
                ELSE /\ cpc' = "exited"
                     /\ exit_code' = 1
    /\ UNCHANGED <<chan, sender_alive, published, gamepad, msg_count, all_msgs, behind>>
    /\ UNCHANGED <<usb_output, hidg0, ivars, pvars>>

\* `hidg0.write_all(&usb_output)`; the file is closed at the end of the iteration.
CWrite ==
    /\ cpc = "write"
    /\ \E ok \in BOOLEAN :
          /\ hidg0' = Append(hidg0, usb_output)
          /\ last_io' = IF ok THEN "ok" ELSE "write_err"
          /\ IF ok \/ WriteErrArm = "continue"
                THEN /\ cpc' = "recv"
                     /\ UNCHANGED exit_code
                ELSE /\ cpc' = "exited"
                     /\ exit_code' = 1
    /\ UNCHANGED <<chan, sender_alive, published, gamepad, msg_count, all_msgs, behind>>
    /\ UNCHANGED <<usb_output, ivars, pvars>>

write_to_gadget_continously == CRecv \/ CLen \/ CDrain \/ CEncode \/ COpen \/ CWrite

(* --------------------- write_to_gadget_intervalic --------------------- *)
\* By how much the clock advances at once: by 1 ns with a short interval, by
\* half an interval less 2 ns or by one and a half intervals with the long one
\* (where the sleep of each iteration still adds its 1 ns).
TickSteps(interval) ==
    IF interval = LongInterval
       THEN {LongInterval \div 2 - 2, LongInterval + LongInterval \div 2}
       ELSE {1}

\* The clock is followed for MaxTime ns, and for two more long intervals with
\* the long interval.
Horizon(interval) ==
    IF interval = LongInterval THEN 2 * LongInterval + MaxTime ELSE MaxTime

\* Time passes: the monotonic clock advances. The writer reads the clock only in
\* `Instant::now()`, so all the time that passes in an iteration is let pass there.
Tick ==
    /\ ipc = "now"
    /\ ticks < MaxTime
    /\ ticks' = ticks + 1
    /\ \E d \in TickSteps(interval_ns) :
          /\ clock + d <= Horizon(interval_ns)
          /\ clock' = clock + d
    /\ UNCHANGED <<slot, interval_ns, dev_num, cancel, cancel_alive, ipc, lock_held,
                   interval_counts_before, interval_counts_now, elapsed_ns, code_ran,
                   last_emit, min_gap, checked, cancelled_at>>
    /\ UNCHANGED <<samples, sampled>>
    /\ UNCHANGED <<svars, cvars, pvars>>

\* The reader locks the slot, overwrites it with the newest value and unlocks.
SlotUpdate ==
    /\ ipc \notin {"idle", "returned", "exited"}
    /\ ~lock_held
    /\ slot < MaxSlot
    /\ slot' = slot + 1
    /\ UNCHANGED <<clock, ticks, interval_ns, dev_num, cancel, cancel_alive, ipc, lock_held,
                   interval_counts_before, interval_counts_now, elapsed_ns, code_ran,
                   last_emit, min_gap, checked, cancelled_at>>
    /\ UNCHANGED <<samples, sampled>>
    /\ UNCHANGED <<svars, cvars, pvars>>

\* Whether the cancel channel tells the writer to stop.
Signalled(q, alive) == q # <<>> \/ ~alive

\* The owner of the writer sends a bool on the cancel channel.
CancelSend ==
    /\ ipc \notin {"idle", "returned", "exited"}
    /\ cancel_alive
    /\ Len(cancel) < MaxCancel
    /\ \E b \in BOOLEAN : cancel' = Append(cancel, b)
    /\ cancelled_at' = IF cancelled_at = -1 THEN Len(hidg0) ELSE cancelled_at
    /\ UNCHANGED <<slot, clock, ticks, interval_ns, dev_num, cancel_alive, ipc, lock_held,
                   interval_counts_before, interval_counts_now, elapsed_ns, code_ran,
                   last_emit, min_gap, checked>>
    /\ UNCHANGED <<samples, sampled>>
    /\ UNCHANGED <<svars, cvars, pvars>>

\* The owner of the writer drops the Sender of the cancel channel.
CancelDrop ==
    /\ ipc \notin {"idle", "returned", "exited"}
    /\ cancel_alive
    /\ cancel_alive' = FALSE
    /\ cancelled_at' = IF cancelled_at = -1 THEN Len(hidg0) ELSE cancelled_at
    /\ UNCHANGED <<slot, clock, ticks, interval_ns, dev_num, cancel, ipc, lock_held,
                   interval_counts_before, interval_counts_now, elapsed_ns, code_ran,
                   last_emit, min_gap, checked>>
    /\ UNCHANGED <<samples, sampled>>
    /\ UNCHANGED <<svars, cvars, pvars>>

\* Variant: only a received `true` breaks the loop.
BreaksOnTrueOnly(b) == b = TRUE

\* Which received values break the loop: `Ok(_) => break`, any of them.
BreaksOn(b) == TRUE

\* `match recv.try_recv()`: Ok(_) and Disconnected break, Empty goes on.
ITryRecv ==
    /\ ipc = "try_recv"
    /\ IF cancel # <<>>
          THEN /\ cancel' = Tail(cancel)
               /\ ipc' = IF BreaksOn(Head(cancel)) THEN "returned" ELSE "sample"
          ELSE /\ UNCHANGED cancel
               /\ ipc' = IF ~cancel_alive THEN "returned" ELSE "sample"
    /\ UNCHANGED <<slot, clock, ticks, interval_ns, dev_num, cancel_alive, lock_held,
                   interval_counts_before, interval_counts_now, elapsed_ns, code_ran,
                   last_emit, min_gap, checked, cancelled_at>>
    /\ UNCHANGED <<samples, sampled>>
    /\ UNCHANGED <<svars, cvars, pvars>>

\* `if code_ran == false { let gamepad_locked = universal_gamepad.lock()..;
\*  usb_output = self.universal_gamepad_to_usb_output(&gamepad_locked); }`
ISample ==
    /\ ipc = "sample"
    /\ IF code_ran = FALSE
          THEN /\ ~lock_held
               /\ lock_held' = TRUE
               /\ usb_output' = universal_gamepad_to_usb_output(slot)
               /\ ipc' = "locked"
               /\ samples' = samples + 1
               /\ sampled' = slot
          ELSE /\ ipc' = "ran"
               /\ UNCHANGED <<lock_held, usb_output, samples, sampled>>
    /\ UNCHANGED <<slot, clock, ticks, interval_ns, dev_num, cancel, cancel_alive,
                   interval_counts_before, interval_counts_now, elapsed_ns, code_ran,
                   last_emit, min_gap, checked, cancelled_at>>
    /\ UNCHANGED <<hidg0, last_io, exit_code, cvars, pvars>>

\* Variant: the guard outlives the `if` block and the mutex stays locked.
IUnlockKept ==
    /\ ipc = "locked"
    /\ ipc' = "ran"
    /\ UNCHANGED <<slot, clock, ticks, interval_ns, dev_num, cancel, cancel_alive, lock_held,
                   interval_counts_before, interval_counts_now, elapsed_ns, code_ran,
                   last_emit, min_gap, checked, cancelled_at>>
    /\ UNCHANGED <<samples, sampled>>
    /\ UNCHANGED <<svars, cvars, pvars>>

\* The end of the `if` block drops gamepad_locked: the mutex is released.
IUnlock ==
    /\ ipc = "locked"
    /\ lock_held' = FALSE
    /\ ipc' = "ran"
    /\ UNCHANGED <<slot, clock, ticks, interval_ns, dev_num, cancel, cancel_alive,
                   interval_counts_before, interval_counts_now, elapsed_ns, code_ran,
                   last_emit, min_gap, checked, cancelled_at>>
    /\ UNCHANGED <<samples, sampled>>
    /\ UNCHANGED <<svars, cvars, pvars>>

\* `code_ran = true;`
ICodeRan ==
    /\ ipc = "ran"
    /\ code_ran' = TRUE
    /\ ipc' = "now"
    /\ UNCHANGED <<slot, clock, ticks, interval_ns, dev_num, cancel, cancel_alive, lock_held,
                   interval_counts_before, interval_counts_now, elapsed_ns,
                   last_emit, min_gap, checked, cancelled_at>>
    /\ UNCHANGED <<samples, sampled>>
    /\ UNCHANGED <<svars, cvars, pvars>>

\* Variant: `>=` in place of `>`.
is_next_interval_or_same(now, before) == now >= before

\* `let is_next_interval: bool = interval_counts_now > interval_counts_before;`
is_next_interval(now, before) == now > before

\* floor(log2(n)) for n >= 1
RECURSIVE Log2(_)
Log2(n) == IF n < 2 THEN 0 ELSE 1 + Log2(n \div 2)

\* `n as f32` for an unsigned integer n: n rounded to the nearest integer with a
\* significand of MantissaBits bits, ties to the even significand.
AsF32(n) ==
    IF n < 2^MantissaBits
       THEN n
       ELSE LET u == 2^(Log2(n) - (MantissaBits - 1))
                r == n % u
                base == n - r
            IN  IF 2 * r < u THEN base
                ELSE IF 2 * r > u THEN base + u
                ELSE IF (base \div u) % 2 = 0 THEN base
                ELSE base + u

\* `a / b <= max_deviation` in f32, for f32 values 0 <= a <= b, b > 0 and
\* max_deviation = num / DevDen: the quotient is rounded to the nearest f32, ties
\* to even, so it is at most num / DevDen iff the exact quotient is at most
\* half a unit in the last place above num / DevDen (whose significand is even).
F32DivLe(a, b, num) ==
    IF num = 0
       THEN a = 0
       ELSE LET x == a * DevDen - b * num
            IN  x <= 0 \/ x <= b \div 2^(MantissaBits - Log2(num))

\* Variant: the deviation in ns is compared with max_deviation, not its share
\* of the interval.
is_close_enough_unscaled(diff, interval, num) == F32DivLe(AsF32(diff), 1, num)

\* `let is_close_enough: bool =
\*      (diff_from_interval_ns as f32 / interval_ns as f32) <= max_deviation;`
\* with max_deviation = num / DevDen.
is_close_enough(diff, interval, num) == F32DivLe(AsF32(diff), AsF32(interval), num)

\* `let now = Instant::now(); let elapsed_ns = (now - start).as_nanos();
\*  let interval_counts_now = elapsed_ns / interval_ns;
\*  let diff_from_interval_ns = elapsed_ns % interval_ns;
\*  if is_next_interval && is_close_enough {`
INow ==
    /\ ipc = "now"
    /\ elapsed_ns' = clock
    /\ interval_counts_now' = clock \div interval_ns
    /\ LET emit == /\ is_next_interval(clock \div interval_ns, interval_counts_before)
                   /\ is_close_enough(clock % interval_ns, interval_ns, dev_num)
       IN  /\ ipc' = IF emit THEN "open" ELSE "sleep"
           /\ checked' = [prev |-> IF last_emit = -1 THEN 0 ELSE last_emit \div interval_ns,
                          emit |-> emit]
    /\ UNCHANGED <<slot, clock, ticks, interval_ns, dev_num, cancel, cancel_alive, lock_held,
                   interval_counts_before, code_ran, last_emit, min_gap, cancelled_at>>
    /\ UNCHANGED <<samples, sampled>>
    /\ UNCHANGED <<svars, cvars, pvars>>

\* `File::options().write(true).append(false).open("/dev/hidg0")`
IOpen ==
    /\ ipc = "open"
    /\ \E ok \in BOOLEAN :
          /\ last_io' = IF ok THEN "ok" ELSE "open_err"
          /\ IF ok \/ OpenErrArm = "continue"
                THEN /\ ipc' = IF ok THEN "write" ELSE "sleep"
                     /\ UNCHANGED exit_code
                ELSE /\ ipc' = "exited"
                     /\ exit_code' = 1
    /\ UNCHANGED <<slot, clock, ticks, interval_ns, dev_num, cancel, cancel_alive, lock_held,
                   interval_counts_before, interval_counts_now, elapsed_ns, code_ran,
                   last_emit, min_gap, checked, cancelled_at>>
    /\ UNCHANGED <<samples, sampled>>
    /\ UNCHANGED <<usb_output, hidg0, cvars, pvars>>

\* Variant: interval_counts_before is not updated.
CountsBeforeKept(before, now) == before

\* `interval_counts_before = interval_counts_now;`
CountsBeforeAfterWrite(before, now) == now

\* Variant: code_ran stays true after a write.
CodeRanKept == TRUE

\* `code_ran = false;` after the write
CodeRanAfterWrite == FALSE

\* `hidg0.write_all(&usb_output)`, then
\* `interval_counts_before = interval_counts_now; code_ran = false; usb_output.clear();`
IWrite ==
    /\ ipc = "write"
    /\ \E ok \in BOOLEAN :
          /\ hidg0' = Append(hidg0, usb_output)
          /\ last_io' = IF ok THEN "ok" ELSE "write_err"
          /\ IF ok \/ WriteErrArm = "continue"
                THEN /\ ipc' = "sleep"
                     /\ UNCHANGED exit_code
                ELSE /\ ipc' = "exited"
                     /\ exit_code' = 1
    /\ interval_counts_before' = CountsBeforeAfterWrite(interval_counts_before, interval_counts_now)
    /\ code_ran' = CodeRanAfterWrite
    /\ usb_output' = <<>>
    /\ samples' = 0
    /\ sampled' = -1
    /\ min_gap' = IF last_emit = -1 THEN -1
                  ELSE IF min_gap = -1 \/ elapsed_ns - last_emit < min_gap
                          THEN elapsed_ns - last_emit
                          ELSE min_gap
    /\ last_emit' = elapsed_ns
    /\ UNCHANGED <<slot, clock, ticks, interval_ns, dev_num, cancel, cancel_alive, lock_held,
                   interval_counts_now, elapsed_ns, checked, cancelled_at>>
    /\ UNCHANGED <<cvars, pvars>>

\* `thread::sleep(Duration::from_nanos(1));`: at least 1 ns passes.
ISleep ==
    /\ ipc = "sleep"
    /\ ticks < MaxTime
    /\ ticks' = ticks + 1
    /\ clock' = clock + 1
    /\ ipc' = "try_recv"
    /\ UNCHANGED <<slot, interval_ns, dev_num, cancel, cancel_alive, lock_held,
                   interval_counts_before, interval_counts_now, elapsed_ns, code_ran,
                   last_emit, min_gap, checked, cancelled_at>>
    /\ UNCHANGED <<samples, sampled>>
    /\ UNCHANGED <<svars, cvars, pvars>>

write_to_gadget_intervalic ==
    ITryRecv \/ ISample \/ IUnlock \/ ICodeRan \/ INow \/ IOpen \/ IWrite \/ ISleep

(* ------------------- process_input (hidapi_fn.rs) --------------------- *)
\* a u8
Byte == 0..255

\* The indices of the input array that the decoder reads, and those before them.
InputIndices == 0..11

\* `a & b` on unsigned integers, bit by bit.
RECURSIVE BitAnd(_, _)
BitAnd(a, b) ==
    IF a = 0 \/ b = 0 THEN 0
    ELSE (a % 2) * (b % 2) + 2 * BitAnd(a \div 2, b \div 2)

\* `match x { v => true, _ => false }`
MatchExact(x, v) == x = v

\* `let dpad = 0b00001111 & input[9];`
DPadNibble(b) == BitAnd(15, b)

\* Variant: the north-west diagonal also reads as right.
DPadRightWrapped(dpad) == dpad = 1 \/ dpad = 2 \/ dpad = 3 \/ dpad = 7

\* `right: (dpad == 1 || dpad == 2 || dpad == 3),`
DPadRight(dpad) == dpad = 1 \/ dpad = 2 \/ dpad = 3

\* `down: (dpad == 3 || dpad == 4 || dpad == 5),`
DPadDown(dpad) == dpad = 3 \/ dpad = 4 \/ dpad = 5

\* `left: (dpad == 5 || dpad == 6 || dpad == 7),`
DPadLeft(dpad) == dpad = 5 \/ dpad = 6 \/ dpad = 7

\* Variant: up without its diagonals.
DPadUpOnly(dpad) == dpad = 0

\* `up: (dpad == 0 || dpad == 1 || dpad == 7),`
DPadUp(dpad) == dpad = 0 \/ dpad = 1 \/ dpad = 7

\* Variant: the mask of the lower button is that of the left button.
MainLowerAsLeft(b) == BitAnd(b, 16) # 0

\* `lower: (input[9] & 0b00100000 != 0),`
MainLower(b) == BitAnd(b, 32) # 0

\* fn _process_input_ps5: the fields it assigns to `output`.
_process_input_ps5(in) ==
    LET dpad == DPadNibble(in[9])
    IN  [sticks |->
            [left  |-> [x |-> in[2], y |-> in[3], pressed |-> MatchExact(in[10], 64)],
             right |-> [x |-> in[4], y |-> in[5], pressed |-> MatchExact(in[10], 128)]],
         triggers |-> [left |-> in[6], right |-> in[7]],
         bumpers |-> [left |-> MatchExact(in[10], 1), right |-> MatchExact(in[10], 2)],
         buttons |->
            [upper |-> BitAnd(in[9], 128) # 0,
             right |-> BitAnd(in[9], 64) # 0,
             lower |-> MainLower(in[9]),
             left  |-> BitAnd(in[9], 16) # 0],
         dpad |->
            [right |-> DPadRight(dpad),
             down  |-> DPadDown(dpad),
             left  |-> DPadLeft(dpad),
             up    |-> DPadUp(dpad)],
         specials |->
            [touchpad |-> MatchExact(in[11], 2),
             right    |-> MatchExact(in[10], 32),
             left     |-> MatchExact(in[10], 16),
             logo     |-> MatchExact(in[11], 1)]]

\* The field groups of the struct UniversalGamepad.
FieldGroups == {"sticks", "triggers", "bumpers", "buttons", "dpad", "specials"}

\* Variant: `output.buttons = ...` is missing.
AssignedGroupsNoButtons == {"sticks", "triggers", "bumpers", "dpad", "specials"}

\* The fields of `output` that _process_input_ps5 assigns: `output.sticks = ..`,
\* `output.triggers = ..`, `output.bumpers = ..`, `output.buttons = ..`,
\* `output.dpad = ..`, `output.specials = ..`.
AssignedGroups == {"sticks", "triggers", "bumpers", "buttons", "dpad", "specials"}

\* `_process_input_ps5(input, output)` on the `&mut UniversalGamepad`: the
\* assigned fields get their new values, any other field keeps its old one.
AssignInto(old, in) ==
    [g \in FieldGroups |->
        IF g \in AssignedGroups THEN _process_input_ps5(in)[g] ELSE old[g]]

\* pub fn process_input: the PS5 arm decodes into `output` (and prints it), the
\* PS4 arm only prints the input and leaves `output` as it was.
process_input ==
    /\ ppc = "process_input"
    /\ output' = IF model = "PS5" THEN AssignInto(output, input) ELSE output
    /\ output_before' = output
    /\ ppc' = "processed"
    /\ UNCHANGED <<input, model>>
    /\ UNCHANGED <<svars, cvars, ivars, selvars, fnvars, xvars>>

(* ------------------ Gamepad::from_cmdline_args ------------------------ *)
\* Variant: the argument has to equal the alias.
StrEquals(hay, needle) == hay = needle

\* `given_arg.contains(associated_arg)`: the needle is a substring of the hay.
StrContains(hay, needle) ==
    \E i \in 0..(Len(hay) - Len(needle)) : SubSeq(hay, i + 1, i + Len(needle)) = needle

\* The inner loop `for associated_arg in gamepad.associated_args`: whether it
\* reaches an alias that the argument contains (where it returns or breaks).
AliasContained(given_arg, g) ==
    \E j \in 1..Len(g.associated_args) : StrContains(given_arg, g.associated_args[j])

\* The loop `for gamepad in OUTPUT_GAMEPADS` from the k-th descriptor on, with
\* `out` printed so far: the first descriptor with a contained alias that is
\* supported is returned; one that is not supported is reported, its inner loop
\* is left with `break` and the outer loop goes on with the next descriptor.
RECURSIVE ScanGamepads(_, _, _, _)
ScanGamepads(table, given_arg, k, out) ==
    IF k > Len(table)
       THEN [selected |-> 0, out |-> out]
       ELSE IF AliasContained(given_arg, table[k])
               THEN IF table[k].is_supported
                       THEN [selected |-> k, out |-> Append(out, <<"Output gamepad is", k>>)]
                       ELSE ScanGamepads(table, given_arg, k + 1,
                                         Append(out, <<"is not yet supported", k>>))
               ELSE ScanGamepads(table, given_arg, k + 1, out)

\* fn _display_supported_gamepads() -> !: the line it prints for the supported
\* descriptors; it ends in exit(1).
_display_supported_gamepads(table) ==
    <<"Supported gamepads are", {k \in 1..Len(table) : table[k].is_supported}>>

\* pub fn from_cmdline_args() -> &'static Gamepad
from_cmdline_args ==
    /\ ppc = "from_cmdline_args"
    /\ IF Len(args) # 2
          THEN /\ stdout' = <<<<"One command line argument was expected">>,
                              _display_supported_gamepads(OUTPUT_GAMEPADS)>>
               /\ exit_code' = 1
               /\ ppc' = "exited"
               /\ UNCHANGED selected
          ELSE LET given_arg == args[2]
                   scan == ScanGamepads(OUTPUT_GAMEPADS, given_arg, 1, <<>>)
               IN  IF scan.selected # 0
                      THEN /\ selected' = scan.selected
                           /\ stdout' = scan.out
                           /\ ppc' = "returned"
                           /\ UNCHANGED exit_code
                      ELSE /\ stdout' = scan.out \o
                                  <<<<"No supported gamepad is associated with the input">>,
                                    _display_supported_gamepads(OUTPUT_GAMEPADS)>>
                           /\ exit_code' = 1
                           /\ ppc' = "exited"
                           /\ UNCHANGED selected
    /\ UNCHANGED <<args, OUTPUT_GAMEPADS>>
    /\ UNCHANGED <<usb_output, hidg0, last_io, cvars, ivars, decvars, fnvars, xvars>>

(* ------------- the decoder and the encoder of a descriptor ------------- *)
\* `v[i]` on a Vec<u8>, i counted from 0: whether i is in range; if it is not,
\* the indexing panics and no byte is read.
VecIndexInRange(v, i) == i < Len(v)

\* The function behind the field bt_input_to_universal_gamepad of a descriptor:
\* it reads the bytes 0 .. last_index of the Vec by index and builds the
\* UniversalGamepad from them. Its type, fn(&Vec<u8>) -> UniversalGamepad, has
\* no error value: the call either returns a UniversalGamepad or panics.
DecoderFn(d, v) ==
    IF \A i \in 0..d.last_index : VecIndexInRange(v, i)
       THEN [kind |-> "value", value |-> [i \in 0..d.last_index |-> v[i + 1]]]
       ELSE [kind |-> "panic"]

\* pub fn bt_input_to_universal_gamepad(&self, bt_input: &Vec<u8>):
\* `return (self.bt_input_to_universal_gamepad)(&bt_input);`
Gamepad_bt_input_to_universal_gamepad(d, v) == DecoderFn(d, v)

\* The caller decodes one report read from the controller.
DecodeCall ==
    /\ ppc = "decode"
    /\ call_result' = Gamepad_bt_input_to_universal_gamepad(descriptor, bt_input)
    /\ ppc' = "decode_over"
    /\ UNCHANGED <<descriptor, bt_input, universal>>
    /\ UNCHANGED <<svars, cvars, ivars, decvars, selvars, xvars>>

\* The buffer that the function behind the field universal_gamepad_to_usb_output
\* builds: built_len bytes, the value in the first, zero in the reserved ones.
EncoderBody(d, u) == [i \in 1..d.built_len |-> IF i = 1 THEN u ELSE 0]

\* Variant: no assertion on the length.
EncoderAssertNone(buf, d) == TRUE

\* "The length will be asserted at runtime to be
\* self.gadget.functions_hid.report_length."
EncoderAssert(buf, d) == Len(buf) = d.report_length

\* The function behind the field universal_gamepad_to_usb_output: it returns
\* the buffer it built, or panics in the assertion.
EncoderFn(d, u) ==
    LET buf == EncoderBody(d, u)
    IN  IF EncoderAssert(buf, d)
           THEN [kind |-> "value", value |-> buf]
           ELSE [kind |-> "panic"]

\* pub fn universal_gamepad_to_usb_output(&self, gamepad: &UniversalGamepad):
\* `return (self.universal_gamepad_to_usb_output)(gamepad);`
Gamepad_universal_gamepad_to_usb_output(d, u) == EncoderFn(d, u)

\* `let usb_output: Vec<u8> = self.universal_gamepad_to_usb_output(&gamepad);`
EncodeCall ==
    /\ ppc = "encode"
    /\ call_result' = Gamepad_universal_gamepad_to_usb_output(descriptor, universal)
    /\ ppc' = IF call_result'.kind = "value" THEN "encoded" ELSE "panicked"
    /\ usb_output' = IF call_result'.kind = "value" THEN call_result'.value ELSE usb_output
    /\ UNCHANGED <<descriptor, bt_input, universal>>
    /\ UNCHANGED <<hidg0, last_io, exit_code, cvars, ivars, decvars, selvars, xvars>>

\* The writer opens /dev/hidg0 and writes the buffer the call returned.
EncodedWrite ==
    /\ ppc = "encoded"
    /\ \E ok \in BOOLEAN :
          /\ last_io' = IF ok THEN "ok" ELSE "write_err"
          /\ hidg0' = Append(hidg0, usb_output)
    /\ ppc' = "written"
    /\ UNCHANGED <<usb_output, exit_code>>
    /\ UNCHANGED <<cvars, ivars, decvars, selvars, fnvars, xvars>>

(* ----------------------- get_hid_gamepad (hidapi_fn.rs) ---------------- *)
\* `(0x054c, 0x0ce6)`: the (vendor, product) pair of the PS5 gamepad.
PS5Pair == <<1356, 3302>>

\* fn _get_bluetooth_hid_devices: the devices of the list whose bus type is
\* Bluetooth, in the order of the list (as indices into the list).
RECURSIVE BluetoothIndices(_, _)
BluetoothIndices(list, k) ==
    IF k > Len(list) THEN <<>>
    ELSE IF list[k].bus_type = "Bluetooth"
            THEN <<k>> \o BluetoothIndices(list, k + 1)
            ELSE BluetoothIndices(list, k + 1)

\* Variant: a device that is not supported ends the search.
UnsupportedArmReturns == "return"

\* What the `_` arm of `match (vid, pid)` does after pushing the device to
\* error_info: `continue`.
UnsupportedArm == "continue"

\* `for device_info in bluetooth_devices`, from the k-th Bluetooth device on,
\* with `info` accumulated so far: stops at the first device with the PS5 pair.
RECURSIVE ScanBluetooth(_, _, _, _)
ScanBluetooth(list, bt, k, info) ==
    IF k > Len(bt)
       THEN [match |-> 0, error_info |-> info]
       ELSE IF <<list[bt[k]].vid, list[bt[k]].pid>> = PS5Pair
               THEN [match |-> bt[k], error_info |-> info]
               ELSE IF UnsupportedArm = "continue"
                       THEN ScanBluetooth(list, bt, k + 1, Append(info, bt[k]))
                       ELSE [match |-> 0, error_info |-> Append(info, bt[k])]

\* `api.open(vid, pid)`: hidapi opens a device of the enumeration that has this
\* vendor and product id, whatever its bus type; with several such devices it
\* is the first one of hidapi's internal list, with no guarantee which one that is.
OpenCandidates(list, vid, pid) ==
    {k \in 1..Len(list) : list[k].vid = vid /\ list[k].pid = pid}

\* pub fn get_hid_gamepad(api: &HidApi)
get_hid_gamepad ==
    /\ ppc = "get_hid_gamepad"
    /\ ppc' = "located"
    /\ LET bt == BluetoothIndices(device_list, 1)
           scan == ScanBluetooth(device_list, bt, 1, <<>>)
       IN  IF bt = <<>>
              THEN /\ stdout' = <<<<"No Devices connected via Bluetooth found">>>>
                   /\ located' = [kind |-> "NoBTDevice"]
                   /\ UNCHANGED error_info
              ELSE IF scan.match # 0
                      THEN /\ error_info' = scan.error_info
                           /\ \E k \in OpenCandidates(device_list, device_list[scan.match].vid,
                                                      device_list[scan.match].pid) :
                                 IF device_list[k].opens
                                    THEN /\ located' = [kind |-> "Ok", hid_device |-> k,
                                                        model |-> "PS5"]
                                         /\ UNCHANGED stdout
                                    ELSE /\ located' = [kind |-> "OpenFailed"]
                                         /\ stdout' = <<<<"OpenFailed", device_list[k].vid,
                                                          device_list[k].pid>>>>
                      ELSE /\ error_info' = scan.error_info
                           /\ stdout' =
                                 <<<<"All of these devices are connected but not supported:">>>>
                                 \o [i \in 1..Len(scan.error_info) |->
                                        <<"vendor", device_list[scan.error_info[i]].vid,
                                          "product", device_list[scan.error_info[i]].pid>>]
                           /\ located' = [kind |-> "NoSupportedDevice"]
    /\ UNCHANGED device_list
    /\ UNCHANGED <<svars, cvars, ivars, decvars, fnvars, thrvars, btvars>>
    /\ UNCHANGED <<args, OUTPUT_GAMEPADS, selected>>

(* --------------------- archive/with_std main loop (main.rs) ------------- *)
Slots == {"first", "second"}

\* Option<GameController>: None, or Some(ctrl) holding one controller.
None == <<>>

Some(ctrl) == <<ctrl>>

\* `loading_show.len() < 10`
LoadingShowMax == 10

\* fn get_and_insert_controllers(ctrls): looks for connected controllers and
\* inserts one it found into a slot that is None, as a GameController without
\* a thread; a slot that holds a controller is left as it is.
get_and_insert_controllers ==
    /\ mpc = "get_and_insert_controllers"
    /\ mpc' = "output_info"
    /\ \E found \in SUBSET Slots :
          ctrls' = [s \in Slots |->
                       IF s \in found /\ ctrls[s] = None
                          THEN Some([thread_handle |-> "None"])
                          ELSE ctrls[s]]
    /\ UNCHANGED <<loading_show, threads>>
    /\ UNCHANGED <<svars, cvars, ivars, ppc, decvars, selvars, fnvars, locvars, btvars>>

\* fn output_info(loading_show, process, ctrls)
output_info ==
    /\ mpc = "output_info"
    /\ mpc' = "handle_threads"
    /\ loading_show' = IF loading_show < LoadingShowMax THEN loading_show + 1 ELSE 0
    /\ UNCHANGED <<ctrls, threads>>
    /\ UNCHANGED <<svars, cvars, ivars, ppc, decvars, selvars, fnvars, locvars, btvars>>

\* Variant: a thread is created whatever the handle is.
NeedsThreadAlways(controller) == TRUE

\* `match controller.thread_handle { None => ..., Some(_) => () }`
NeedsThread(controller) == controller.thread_handle = "None"

\* fn _create_new_thread(controller): the controller afterwards
_create_new_thread(controller) ==
    IF NeedsThread(controller)
       THEN [controller EXCEPT !.thread_handle = "Some"]
       ELSE controller

\* fn handle_threads(ctrls)
handle_threads ==
    /\ mpc = "handle_threads"
    /\ mpc' = "sleep"
    /\ ctrls' = [s \in Slots |->
                    IF ctrls[s] = None THEN None ELSE Some(_create_new_thread(ctrls[s][1]))]
    /\ threads' = [s \in Slots |->
                      IF ctrls[s] # None /\ NeedsThread(ctrls[s][1])
                         THEN Append(threads[s], "running")
                         ELSE threads[s]]
    /\ UNCHANGED loading_show
    /\ UNCHANGED <<svars, cvars, ivars, ppc, decvars, selvars, fnvars, locvars, btvars>>

\* `thread::sleep(Duration::from_secs(2))` and the next turn of `loop`
main_sleep ==
    /\ mpc = "sleep"
    /\ mpc' = "get_and_insert_controllers"
    /\ UNCHANGED <<ctrls, loading_show, threads>>
    /\ UNCHANGED <<svars, cvars, ivars, ppc, decvars, selvars, fnvars, locvars, btvars>>

\* A spawned thread runs read_controller_input(threaded_controller) and ends
\* when that call returns; the JoinHandle stays in the collection.
read_controller_input ==
    /\ mpc # "idle"
    /\ \E s \in Slots : \E i \in 1..Len(threads[s]) :
          /\ threads[s][i] = "running"
          /\ threads' = [threads EXCEPT ![s][i] = "returned"]
    /\ UNCHANGED <<ctrls, loading_show, mpc>>
    /\ UNCHANGED <<svars, cvars, ivars, ppc, decvars, selvars, fnvars, locvars, btvars>>

(* ------------- _bt_program_flow (main.rs), bt_scan_on (bluetooth_fn.rs) --- *)
\* Nothing outside the flow, its scan thread and bluetoothctl changes.
BtFrame ==
    UNCHANGED <<usb_output, hidg0, last_io, cvars, ivars, ppc, decvars, selvars, fnvars,
                locvars, thrvars>>

\* `exit(1)`: the process ends, with all its threads.
BtExit ==
    /\ fpc' = "exited"
    /\ exit_code' = 1

\* `match set_handler(move || ctrlc_clone.store(false, ..))`
FSetHandler ==
    /\ fpc = "set_handler"
    /\ \E ok \in BOOLEAN :
          IF ok THEN /\ handler_set' = TRUE
                     /\ fpc' = "bt_power_on"
                     /\ UNCHANGED exit_code
                ELSE /\ BtExit
                     /\ UNCHANGED handler_set
    /\ UNCHANGED <<tpc, ctrlc, request_scan_stop, stream, scan_output, calls_after_clear>>
    /\ BtFrame

\* pub fn bt_power_on(): returns, or exits if bluetoothctl fails
bt_power_on ==
    /\ fpc = "bt_power_on"
    /\ \E ok \in BOOLEAN :
          IF ok THEN /\ fpc' = "bt_scan_on_threaded"
                     /\ UNCHANGED exit_code
                ELSE BtExit
    /\ UNCHANGED <<tpc, ctrlc, handler_set, request_scan_stop, stream, scan_output,
                   calls_after_clear>>
    /\ BtFrame

\* bt_scan_on_threaded(): starts the thread that runs bt_scan_on and returns
\* the shared Vec and the thread's JoinHandle.
bt_scan_on_threaded ==
    /\ fpc = "bt_scan_on_threaded"
    /\ fpc' = "load"
    /\ tpc' = "spawn"
    /\ UNCHANGED <<exit_code, ctrlc, handler_set, request_scan_stop, stream, scan_output,
                   calls_after_clear>>
    /\ BtFrame

\* Variant: the loop does not look at the flag.
LoopGoesOnAlways(flag) == TRUE

\* `while ctrlc.load(Ordering::SeqCst)`
LoopGoesOn(flag) == flag

FLoad ==
    /\ fpc = "load"
    /\ fpc' = IF LoopGoesOn(ctrlc) THEN "handle_bt_scan_output" ELSE "join"
    /\ UNCHANGED <<exit_code, tpc, ctrlc, handler_set, request_scan_stop, stream, scan_output,
                   calls_after_clear>>
    /\ BtFrame

\* handle_bt_scan_output(&shared_mem_scan_output): looks at the lines scanned
\* so far and returns; it may ask for the scan to stop.
handle_bt_scan_output ==
    /\ fpc = "handle_bt_scan_output"
    /\ fpc' = "sleep"
    /\ calls_after_clear' = IF ctrlc THEN calls_after_clear ELSE calls_after_clear + 1
    /\ \E stop \in BOOLEAN : request_scan_stop' = (request_scan_stop \/ stop)
    /\ UNCHANGED <<exit_code, tpc, ctrlc, handler_set, stream, scan_output>>
    /\ BtFrame

\* `thread::sleep(Duration::from_millis(500));`
FSleep ==
    /\ fpc = "sleep"
    /\ fpc' = "load"
    /\ UNCHANGED <<exit_code, tpc, ctrlc, handler_set, request_scan_stop, stream, scan_output,
                   calls_after_clear>>
    /\ BtFrame

\* `thread_handle.join()` returns when the thread has ended.
JoinReturns(t) == t = "ended"

\* `thread_handle.join().unwrap();` and the end of _bt_program_flow
FJoin ==
    /\ fpc = "join"
    /\ JoinReturns(tpc)
    /\ fpc' = "returned"
    /\ UNCHANGED <<exit_code, tpc, ctrlc, handler_set, request_scan_stop, stream, scan_output,
                   calls_after_clear>>
    /\ BtFrame

_bt_program_flow ==
    \/ FSetHandler
    \/ bt_power_on
    \/ bt_scan_on_threaded
    \/ FLoad
    \/ handle_bt_scan_output
    \/ FSleep
    \/ FJoin

\* Ctrl-C is pressed: the handler stores false into the flag.
CtrlC ==
    /\ handler_set
    /\ fpc \notin {"exited", "returned"}
    /\ ctrlc
    /\ ctrlc' = FALSE
    /\ UNCHANGED <<exit_code, fpc, tpc, handler_set, request_scan_stop, stream, scan_output,
                   calls_after_clear>>
    /\ BtFrame

\* `Command::new("stdbuf").args([.., "bluetoothctl", "scan", "on"])...spawn()`
TSpawn ==
    /\ tpc = "spawn"
    /\ fpc # "exited"
    /\ \E ok \in BOOLEAN :
          IF ok THEN /\ tpc' = "lines"
                     /\ stream' = [lines |-> 0, open |-> TRUE]
                     /\ UNCHANGED <<fpc, exit_code>>
                ELSE /\ BtExit
                     /\ UNCHANGED <<tpc, stream>>
    /\ UNCHANGED <<ctrlc, handler_set, request_scan_stop, scan_output, calls_after_clear>>
    /\ BtFrame

\* bluetoothctl writes a line to its stdout.
StreamLine ==
    /\ stream.open
    /\ fpc # "exited"
    /\ stream.lines + scan_output < MaxLines
    /\ stream' = [stream EXCEPT !.lines = stream.lines + 1]
    /\ UNCHANGED <<exit_code, fpc, tpc, ctrlc, handler_set, request_scan_stop, scan_output,
                   calls_after_clear>>
    /\ BtFrame

\* bluetoothctl ends: its stdout is closed.
StreamEnd ==
    /\ stream.open
    /\ fpc # "exited"
    /\ stream' = [stream EXCEPT !.open = FALSE]
    /\ UNCHANGED <<exit_code, fpc, tpc, ctrlc, handler_set, request_scan_stop, scan_output,
                   calls_after_clear>>
    /\ BtFrame

\* `for line in stdout.lines()`: the next line is pushed to scan_output; at
\* the end of the stream the loop is left. Without a line and with the stream
\* open the read blocks.
TLines ==
    /\ tpc = "lines"
    /\ fpc # "exited"
    /\ IF stream.lines > 0
          THEN /\ stream' = [stream EXCEPT !.lines = stream.lines - 1]
               /\ scan_output' = scan_output + 1
               /\ UNCHANGED tpc
          ELSE /\ ~stream.open
               /\ tpc' = "stderr"
               /\ UNCHANGED <<stream, scan_output>>
    /\ UNCHANGED <<exit_code, fpc, ctrlc, handler_set, request_scan_stop, calls_after_clear>>
    /\ BtFrame

\* `for line in stderr.lines()`, then bt_scan_on returns and the thread ends.
TStderr ==
    /\ tpc = "stderr"
    /\ fpc # "exited"
    /\ tpc' = "ended"
    /\ UNCHANGED <<exit_code, fpc, ctrlc, handler_set, request_scan_stop, stream, scan_output,
                   calls_after_clear>>
    /\ BtFrame

\* pub fn bt_scan_on(scan_output, request_scan_stop)
bt_scan_on == TSpawn \/ TLines \/ TStderr

(* ---------------------------- specification --------------------------- *)
InitShared ==
    /\ usb_output = <<>>
    /\ hidg0 = <<>>
    /\ last_io = "none"
    /\ exit_code = 0

InitContVars ==
    /\ chan = <<>>
    /\ sender_alive = TRUE
    /\ published = 0
    /\ gamepad = 0
    /\ msg_count = 0
    /\ all_msgs = <<>>
    /\ behind = <<>>

InitIntVars ==
    /\ slot = 0
    /\ clock = 0
    /\ ticks = 0
    /\ cancel = <<>>
    /\ cancel_alive = TRUE
    /\ interval_counts_before = 0
    /\ interval_counts_now = 0
    /\ elapsed_ns = 0
    /\ code_ran = FALSE
    /\ lock_held = FALSE
    /\ last_emit = -1
    /\ min_gap = -1
    /\ checked = <<>>
    /\ cancelled_at = -1
    /\ samples = 0
    /\ sampled = -1

\* process_input is not called.
InitDecIdle ==
    /\ input = <<>>
    /\ model = "none"
    /\ output = <<>>
    /\ output_before = <<>>

\* from_cmdline_args is not called.
InitSelIdle ==
    /\ args = <<>>
    /\ OUTPUT_GAMEPADS = <<>>
    /\ selected = 0
    /\ stdout = <<>>

\* No decoder or encoder of a descriptor is called on its own.
InitFnIdle ==
    /\ descriptor = <<>>
    /\ bt_input = <<>>
    /\ universal = 0
    /\ call_result = <<>>

\* get_hid_gamepad is not called.
InitLocIdle ==
    /\ device_list = <<>>
    /\ error_info = <<>>
    /\ located = <<>>

\* None of the other parts of the program runs.
\* The archive program does not run.
InitThrIdle ==
    /\ ctrls = <<>>
    /\ loading_show = 0
    /\ threads = <<>>
    /\ mpc = "idle"

\* The Bluetooth scan flow does not run.
InitBtIdle ==
    /\ fpc = "idle"
    /\ tpc = "none"
    /\ ctrlc = TRUE
    /\ handler_set = FALSE
    /\ request_scan_stop = FALSE
    /\ stream = [lines |-> 0, open |-> FALSE]
    /\ scan_output = 0
    /\ calls_after_clear = 0

InitOthersIdle ==
    /\ InitLocIdle
    /\ InitThrIdle
    /\ InitBtIdle

\* No report is decoded and no function is called on its own.
InitPureIdle ==
    /\ ppc = "idle"
    /\ InitDecIdle
    /\ InitSelIdle
    /\ InitFnIdle
    /\ InitOthersIdle

\* A session that runs the continuous writer: the interval writer is not started.
InitCont ==
    /\ InitShared
    /\ InitPureIdle
    /\ InitContVars
    /\ InitIntVars
    /\ cpc = "recv"
    /\ ipc = "idle"
    /\ interval_ns = 1
    /\ dev_num = 0

NextCont == Publish \/ DropSender \/ write_to_gadget_continously

SpecCont == InitCont /\ [][NextCont]_vars

\* The writer thread is scheduled: a step of the writer that stays possible is
\* taken. Nothing makes the reader send or drop its Sender.
SpecContFair == SpecCont /\ WF_vars(write_to_gadget_continously)

\* A session that runs the interval writer, with a short interval and any
\* max_deviation or with the long interval and max_deviation = 1/2: the continuous
\* writer is not started.
InitInt ==
    /\ InitShared
    /\ InitPureIdle
    /\ InitContVars
    /\ InitIntVars
    /\ cpc = "idle"
    /\ ipc = "try_recv"
    /\ \/ /\ interval_ns \in 1..MaxInterval
          /\ dev_num \in 0..DevDen
       \/ /\ interval_ns = LongInterval
          /\ dev_num = DevDen \div 2

NextInt == Tick \/ SlotUpdate \/ CancelSend \/ CancelDrop \/ write_to_gadget_intervalic

SpecInt == InitInt /\ [][NextInt]_vars


\* The input report of a controller at rest, and the UniversalGamepad at rest.
NeutralInput ==
    [i \in InputIndices |-> IF i \in 2..5 THEN 128 ELSE IF i = 9 THEN 8 ELSE 0]

NeutralGamepad == _process_input_ps5(NeutralInput)

\* The values the axis bytes take in the input reports.
AxisSamples == {0, 128, 255}

\* The input reports that are decoded: every byte 9 with byte 10 at rest or 0x41,
\* every byte 10 with a few bytes 11, and every combination of sampled axis
\* bytes with byte 9 at rest or 0x28.
InputReports ==
    {[NeutralInput EXCEPT ![9] = b, ![10] = c] : b \in Byte, c \in {0, 65}}
    \cup {[NeutralInput EXCEPT ![10] = b, ![11] = c] : b \in Byte, c \in 0..MaxByte11}
    \cup {[NeutralInput EXCEPT ![2] = a[1], ![3] = a[2], ![4] = a[3], ![5] = a[4],
                               ![6] = a[5], ![7] = a[6], ![9] = b] :
            a \in [1..6 -> AxisSamples], b \in {8, 40}}

\* A session of the decoder: one input report is handed to process_input, with
\* `output` holding the value at rest or the one of an earlier report.
InitDec ==
    /\ InitShared
    /\ InitOthersIdle
    /\ InitContVars
    /\ InitIntVars
    /\ cpc = "idle"
    /\ ipc = "idle"
    /\ interval_ns = 1
    /\ dev_num = 0
    /\ InitSelIdle
    /\ InitFnIdle
    /\ ppc = "process_input"
    /\ input \in InputReports
    /\ model \in {"PS5", "PS4"}
    /\ output \in {NeutralGamepad, _process_input_ps5([NeutralInput EXCEPT ![9] = 40])}
    /\ output_before = <<>>

NextDec == process_input

SpecDec == InitDec /\ [][NextDec]_vars

\* The characters of aliases and arguments.
Chars == {"a", "b"}

\* The strings over Chars of lo .. hi characters.
Strings(lo, hi) == UNION {[1..n -> Chars] : n \in lo..hi}

\* `pub const OUTPUT_GAMEPADS: [&Gamepad; 2]`: the tables of two descriptors,
\* each with `associated_args: [&'static str; 2]` and is_supported.
Descriptors ==
    [associated_args : [1..2 -> Strings(1, MaxAliasLen)], is_supported : BOOLEAN]

\* The tables: an alias names one descriptor, so no two descriptors share one.
GamepadTables ==
    {t \in [1..2 -> Descriptors] :
        \A i \in 1..2, j \in 1..2 : t[1].associated_args[i] # t[2].associated_args[j]}

\* args[0] of the source: the name the program was started with.
ProgramName == <<"b">>

\* The argument vectors: none at all, the program name alone, one argument, and
\* one argument followed by more.
ArgVectors ==
    {<<>>, <<ProgramName>>}
    \cup {<<ProgramName, a>> \o [i \in 1..n |-> <<"a">>] :
            a \in Strings(0, MaxArgLen), n \in 0..MaxExtraArgs}

\* A session of the selector: from_cmdline_args is called once at program start.
InitSel ==
    /\ InitShared
    /\ InitOthersIdle
    /\ InitContVars
    /\ InitIntVars
    /\ InitDecIdle
    /\ InitFnIdle
    /\ cpc = "idle"
    /\ ipc = "idle"
    /\ interval_ns = 1
    /\ dev_num = 0
    /\ ppc = "from_cmdline_args"
    /\ args \in ArgVectors
    /\ OUTPUT_GAMEPADS \in GamepadTables
    /\ selected = 0
    /\ stdout = <<>>

NextSel == from_cmdline_args

SpecSel == InitSel /\ [][NextSel]_vars

\* The descriptors whose decoder is called: min_bt_report_size is what makes
\* every byte that the decoder reads readable, or more.
DecodingGamepads ==
    {d \in [min_bt_report_size : 1..MaxReportSize, last_index : 0..(MaxReportSize - 1),
            report_length : {1}, built_len : {1}] : d.last_index < d.min_bt_report_size}

\* The reports read from the controller: 0 .. MaxReportSize bytes.
BtInputs == {[i \in 1..n |-> b] : n \in 0..MaxReportSize, b \in {0, 255}}

\* The descriptors whose encoder is called: the buffer the encoder builds has
\* report_length bytes, or one less or one more if the encoder is wrong.
EncodingGamepads ==
    {[min_bt_report_size |-> 1, last_index |-> 0, report_length |-> r, built_len |-> r + e] :
        r \in 1..MaxReportLength, e \in {-1, 0, 1}}

\* A session that calls the decoder or the encoder of a descriptor once, through
\* the methods of Gamepad.
InitFn ==
    /\ InitShared
    /\ InitOthersIdle
    /\ InitContVars
    /\ InitIntVars
    /\ InitDecIdle
    /\ InitSelIdle
    /\ cpc = "idle"
    /\ ipc = "idle"
    /\ interval_ns = 1
    /\ dev_num = 0
    /\ call_result = <<>>
    /\ \/ /\ ppc = "decode"
          /\ descriptor \in DecodingGamepads
          /\ bt_input \in BtInputs
          /\ universal = 0
       \/ /\ ppc = "encode"
          /\ descriptor \in EncodingGamepads
          /\ bt_input = <<>>
          /\ universal \in 0..MaxSlot

NextFn == DecodeCall \/ EncodeCall \/ EncodedWrite

SpecFn == InitFn /\ [][NextFn]_vars

\* The HID devices that may be enumerated: on Bluetooth or USB, a PS5 gamepad
\* or a PS4 gamepad (0x054c, 0x09cc), which the OS lets the process open or not.
HidDevices ==
    [bus_type : {"Bluetooth", "Usb"}, vid : {1356}, pid : {3302, 2508}, opens : BOOLEAN]

\* A session of the device locator: get_hid_gamepad is called once on an
\* enumeration of 0 .. MaxDevices devices.
InitLoc ==
    /\ InitShared
    /\ InitContVars
    /\ InitIntVars
    /\ InitDecIdle
    /\ InitSelIdle
    /\ InitFnIdle
    /\ cpc = "idle"
    /\ ipc = "idle"
    /\ interval_ns = 1
    /\ dev_num = 0
    /\ ppc = "get_hid_gamepad"
    /\ device_list \in UNION {[1..n -> HidDevices] : n \in 0..MaxDevices}
    /\ error_info = <<>>
    /\ located = <<>>
    /\ InitThrIdle
    /\ InitBtIdle

NextLoc == get_hid_gamepad

SpecLoc == InitLoc /\ [][NextLoc]_vars

\* A run of the archive program: main starts with both slots None.
InitThr ==
    /\ InitShared
    /\ InitContVars
    /\ InitIntVars
    /\ InitDecIdle
    /\ InitSelIdle
    /\ InitFnIdle
    /\ InitLocIdle
    /\ InitBtIdle
    /\ cpc = "idle"
    /\ ipc = "idle"
    /\ interval_ns = 1
    /\ dev_num = 0
    /\ ppc = "idle"
    /\ ctrls = [s \in Slots |-> None]
    /\ loading_show = 0
    /\ threads = [s \in Slots |-> <<>>]
    /\ mpc = "get_and_insert_controllers"

NextThr ==
    \/ get_and_insert_controllers
    \/ output_info
    \/ handle_threads
    \/ main_sleep
    \/ read_controller_input

SpecThr == InitThr /\ [][NextThr]_vars

\* A run of the Bluetooth scan flow: _bt_program_flow is called.
InitBt ==
    /\ InitShared
    /\ InitContVars
    /\ InitIntVars
    /\ InitDecIdle
    /\ InitSelIdle
    /\ InitFnIdle
    /\ InitLocIdle
    /\ InitThrIdle
    /\ cpc = "idle"
    /\ ipc = "idle"
    /\ interval_ns = 1
    /\ dev_num = 0
    /\ ppc = "idle"
    /\ fpc = "set_handler"
    /\ tpc = "none"
    /\ ctrlc = TRUE
    /\ handler_set = FALSE
    /\ request_scan_stop = FALSE
    /\ stream = [lines |-> 0, open |-> FALSE]
    /\ scan_output = 0
    /\ calls_after_clear = 0

NextBt == _bt_program_flow \/ bt_scan_on \/ CtrlC \/ StreamLine \/ StreamEnd

SpecBt == InitBt /\ [][NextBt]_vars

\* The flow's own thread keeps running: each of its steps that can be taken
\* is taken eventually.
SpecBtFair == SpecBt /\ WF_vars(_bt_program_flow)

\* A session runs exactly one of the two writers.
Init == InitCont \/ InitInt

Next == NextCont \/ NextInt

Spec == Init /\ [][Next]_vars

(* ------------------------------- claims ------------------------------- *)
\* The last element of a non-empty sequence.
Last(s) == s[Len(s)]

\* The value a report encodes.
ReportValue(buf) == buf[2]

\* C1: when the continuous writer has taken a value with more than 5 further
\* values queued and has drained them, the one report it writes for that backlog
\* encodes the newest value of the backlog (the last one drained).
C1_CoalescedWriteIsNewest ==
    (cpc = "write" /\ all_msgs # <<>>)
        => usb_output = universal_gamepad_to_usb_output(Last(all_msgs))

\* C2: when the continuous writer has emptied the channel and waits in receive,
\* and its last write succeeded, the last report written encodes the last value
\* that was published.
C2_ConvergesToLatest ==
    (cpc = "recv" /\ chan = <<>> /\ published > 0 /\ last_io = "ok")
        => /\ hidg0 # <<>>
           /\ Last(hidg0) = universal_gamepad_to_usb_output(published)

\* C3: the reports the continuous writer writes are an order-preserving
\* subsequence of the published values: each encodes a published value, and each
\* encodes a value published later than the one written before it (so none is
\* written twice and none is written after a newer one).
C3_WritesAreSubsequence ==
    \A i \in 1..Len(hidg0) :
        /\ ReportValue(hidg0[i]) \in 1..published
        /\ hidg0[i] = universal_gamepad_to_usb_output(ReportValue(hidg0[i]))
        /\ i > 1 => ReportValue(hidg0[i-1]) < ReportValue(hidg0[i])

\* C3 witness: two reports were written and a value published between them was dropped.
C3_Witness ==
    /\ Len(hidg0) >= 2
    /\ ReportValue(hidg0[2]) > ReportValue(hidg0[1]) + 1

\* C4: every value the continuous writer goes on to encode and write was the
\* latest message of the channel when it was taken: nothing was queued behind it.
C4_WrittenWasLatestWhenTaken ==
    cpc \in {"encode", "open", "write"} => behind = <<>>

\* C5 (as stated): the process is never terminated by a gadget I/O failure.
C5_NeverTerminated == exit_code = 0

\* C5 (amended): in both writers a failed write_all is logged and the loop goes
\* on (the continuous writer to its next receive, the interval writer to its
\* sleep), however often it fails; a failed open of /dev/hidg0 ends the process
\* with exit code 1, and nothing else ends it.
C5_IoFailureHandling ==
    [][/\ (hidg0' # hidg0 /\ last_io' = "write_err")
            => (exit_code' = 0 /\ (cpc' = "recv" \/ ipc' = "sleep"))
       /\ ((cpc = "open" \/ ipc = "open") /\ last_io' = "open_err")
            => (exit_code' = 1 /\ (cpc' = "exited" \/ ipc' = "exited"))
       /\ exit_code' # exit_code
            => (last_io' = "open_err" /\ exit_code' = 1)]_vars

\* C5 witness: a write failed, the writer went on and has reached its next open.
C5_Witness ==
    /\ last_io = "write_err"
    /\ exit_code = 0
    /\ cpc = "open" \/ ipc = "open"
    /\ Len(hidg0) >= 2

C7_MinSpacing ==
    min_gap # -1 => min_gap * DevDen >= interval_ns * (DevDen - dev_num)

\* C8: the interval writer has written at most floor(t / P) times at elapsed
\* time t; every write is in a cycle after cycle 0 and in a later cycle than the
\* write before it.
C8_RateBound ==
    /\ Len(hidg0) <= clock \div interval_ns
    /\ ipc = "write" =>
          /\ elapsed_ns \div interval_ns >= 1
          /\ last_emit # -1 => elapsed_ns \div interval_ns > last_emit \div interval_ns

\* C8 witness: with max_deviation = 1 the bound is attained after several periods.
C8_Witness ==
    /\ dev_num = DevDen
    /\ Len(hidg0) >= 2
    /\ Len(hidg0) = clock \div interval_ns

C10_Cancellation ==
    [][/\ (ipc = "try_recv" /\ ipc' # ipc)
            => (ipc' = "returned" <=> Signalled(cancel, cancel_alive))
       /\ (ipc' = "returned" /\ ipc # "returned") => ipc = "try_recv"
       /\ cancelled_at' # -1 => Len(hidg0') <= cancelled_at' + 1]_vars

\* C10 witness: the writer returned after a cancel signal that let the write of
\* the iteration in progress happen.
C10_Witness ==
    /\ ipc = "returned"
    /\ cancelled_at # -1
    /\ Len(hidg0) = cancelled_at + 1

\* C11: the continuous writer returns only from its receive, and only when the
\* channel is empty and every sender is dropped; with a sender alive and the
\* channel empty it stays in receive; and once every sender is dropped, the
\* scheduled writer consumes what is queued and returns (or the process has been
\* ended by a failed open of /dev/hidg0 before that), leaving the channel empty.
C11_ShutdownOnClose ==
    /\ [][((cpc' = "done" /\ cpc # "done")
                => (cpc = "recv" /\ chan = <<>> /\ ~sender_alive))
           /\ ((cpc = "recv" /\ chan = <<>> /\ sender_alive) => cpc' = "recv")]_vars
    /\ [](cpc = "done" => (chan = <<>> /\ ~sender_alive))
    /\ (cpc # "idle" /\ ~sender_alive) ~> (cpc = "done" \/ exit_code = 1)

\* C11 witness: the sender was dropped with values still queued, and the writer
\* has consumed them, written the last one and returned.
C11_Witness ==
    /\ cpc = "done"
    /\ published >= 3
    /\ Len(hidg0) >= 2
    /\ Last(hidg0) = universal_gamepad_to_usb_output(published)

\* C12: the interval writer holds the mutex of the slot only between locking it
\* to build the output buffer and the end of that block: whenever it is about to
\* open or write /dev/hidg0, samples the clock, sleeps or checks for cancellation
\* the mutex is free.
C12_LockDiscipline ==
    /\ lock_held => ipc = "locked"
    /\ ipc \in {"try_recv", "ran", "now", "open", "write", "sleep"} => ~lock_held

\* C12 witness: the reader has overwritten the slot after the writer copied it,
\* and the writer is writing the copy with the mutex free.
C12_Witness ==
    /\ ipc = "write"
    /\ ~lock_held
    /\ slot > ReportValue(usb_output)

\* Whether the bit of weight w (a power of two) is set in the byte b.
BitSet(b, w) == (b \div w) % 2 = 1

\* The PS5 decoder has run on `input`.
DecodedPS5 == ppc = "processed" /\ model = "PS5"

\* C13: the PS5 decoder reads byte 10 as a bitfield: the two bumpers, the two
\* specials and the two stick clicks are each true iff their own bit (0x01,
\* 0x02, 0x10, 0x20, 0x40, 0x80) is set, whatever the other bits are.
C13_Byte10Bitfield ==
    DecodedPS5 =>
        /\ output.bumpers.left <=> BitSet(input[10], 1)
        /\ output.bumpers.right <=> BitSet(input[10], 2)
        /\ output.specials.left <=> BitSet(input[10], 16)
        /\ output.specials.right <=> BitSet(input[10], 32)
        /\ output.sticks.left.pressed <=> BitSet(input[10], 64)
        /\ output.sticks.right.pressed <=> BitSet(input[10], 128)

\* C14: with n the low nibble of byte 9, the decoded dpad is up iff n is 7, 0 or
\* 1, right iff n is 1, 2 or 3, down iff n is 3, 4 or 5, left iff n is 5, 6 or 7
\* (so all four are false at n = 8), whatever the bits 7..4 of the byte are.
C14_DPadExpansion ==
    DecodedPS5 =>
        LET n == input[9] % 16
        IN  /\ output.dpad.up <=> n \in {7, 0, 1}
            /\ output.dpad.right <=> n \in {1, 2, 3}
            /\ output.dpad.down <=> n \in {3, 4, 5}
            /\ output.dpad.left <=> n \in {5, 6, 7}
            /\ n = 8 => output.dpad = [up |-> FALSE, right |-> FALSE,
                                       down |-> FALSE, left |-> FALSE]

\* C14 witness: byte 9 = 0xA1 (nibble 1 under main-button bits) was decoded to
\* up and right, not down nor left.
C14_Witness ==
    /\ DecodedPS5
    /\ input[9] = 161
    /\ output.dpad = [up |-> TRUE, right |-> TRUE, down |-> FALSE, left |-> FALSE]

\* The dpad booleans that are true.
DPadTrue(d) ==
    {k \in {"up", "right", "down", "left"} :
        \/ k = "up" /\ d.up
        \/ k = "right" /\ d.right
        \/ k = "down" /\ d.down
        \/ k = "left" /\ d.left}

\* C15: for every byte 9 the decoded dpad never has up and down both true, nor
\* left and right both true, and has at most two booleans true.
C15_DPadExclusive ==
    DecodedPS5 =>
        /\ ~(output.dpad.up /\ output.dpad.down)
        /\ ~(output.dpad.left /\ output.dpad.right)
        /\ Cardinality(DPadTrue(output.dpad)) <= 2
        /\ DPadTrue(output.dpad) \in
              {{}, {"up"}, {"right"}, {"down"}, {"left"},
               {"up", "right"}, {"right", "down"}, {"down", "left"}, {"left", "up"}}

\* C15 witness: byte 9 = 0xFF, with the undefined nibble 15, was decoded, to no
\* direction.
C15_Witness ==
    /\ DecodedPS5
    /\ input[9] = 255
    /\ DPadTrue(output.dpad) = {}

\* The UniversalGamepad at rest, field by field.
RestValue ==
    [sticks |-> [left |-> [x |-> 128, y |-> 128, pressed |-> FALSE],
                 right |-> [x |-> 128, y |-> 128, pressed |-> FALSE]],
     triggers |-> [left |-> 0, right |-> 0],
     bumpers |-> [left |-> FALSE, right |-> FALSE],
     buttons |-> [upper |-> FALSE, right |-> FALSE, lower |-> FALSE, left |-> FALSE],
     dpad |-> [right |-> FALSE, down |-> FALSE, left |-> FALSE, up |-> FALSE],
     specials |-> [touchpad |-> FALSE, right |-> FALSE, left |-> FALSE, logo |-> FALSE]]

\* C16: the PS5 decoder copies bytes 2, 3 to the left stick, bytes 4, 5 to the
\* right stick and bytes 6, 7 to the triggers, unchanged, and reads the main
\* buttons upper, right, lower, left from bits 7, 6, 5, 4 of byte 9; the report
\* at rest decodes to the value at rest, and the report at rest with byte 9 =
\* 0x28 to the value at rest with main.lower true.
C16_FieldMap ==
    DecodedPS5 =>
        /\ output.sticks.left.x = input[2] /\ output.sticks.left.y = input[3]
        /\ output.sticks.right.x = input[4] /\ output.sticks.right.y = input[5]
        /\ output.triggers.left = input[6] /\ output.triggers.right = input[7]
        /\ output.buttons.upper <=> BitSet(input[9], 128)
        /\ output.buttons.right <=> BitSet(input[9], 64)
        /\ output.buttons.lower <=> BitSet(input[9], 32)
        /\ output.buttons.left <=> BitSet(input[9], 16)
        /\ (\A i \in {2, 3, 4, 5} : input[i] = 128) /\ (\A i \in {6, 7, 10, 11} : input[i] = 0)
              => /\ input[9] = 8 => output = RestValue
                 /\ input[9] = 40 => output = [RestValue EXCEPT !.buttons.lower = TRUE]

\* C16 witness: the report at rest with byte 9 = 0x28 was decoded: the
\* lower button reads true and the axes are at rest.
C16_Witness ==
    /\ DecodedPS5
    /\ input = [NeutralInput EXCEPT ![9] = 40]
    /\ output.buttons.lower
    /\ output.sticks.left.x = 128

\* Whether the string `needle` occurs in the string `hay`.
IsSubstring(needle, hay) ==
    \E i \in 0..Len(hay) :
        /\ i + Len(needle) <= Len(hay)
        /\ \A t \in 1..Len(needle) : hay[i + t] = needle[t]

\* Whether the argument contains an alias of the k-th descriptor of the table.
ArgNames(k) ==
    \E j \in 1..2 : IsSubstring(OUTPUT_GAMEPADS[k].associated_args[j], args[2])

\* from_cmdline_args has been called and is over.
SelectorOver == ppc \in {"returned", "exited"} /\ OUTPUT_GAMEPADS # <<>>

\* C19: if the one argument contains an alias of a descriptor that is not
\* supported, from_cmdline_args prints a diagnostic and exits non-zero, and
\* returns no descriptor.
C19_UnsupportedMatchExits ==
    (/\ SelectorOver
     /\ Len(args) = 2
     /\ \E k \in 1..Len(OUTPUT_GAMEPADS) :
           ~OUTPUT_GAMEPADS[k].is_supported /\ ArgNames(k))
        => (ppc = "exited" /\ exit_code # 0 /\ selected = 0 /\ stdout # <<>>)

\* C20: from_cmdline_args returns the descriptor D iff exactly one argument was
\* given and some supported descriptor has an alias that the argument contains,
\* and D is then the first such descriptor of the table; in every other case it
\* exits with code 1 and returns nothing. A descriptor that is not supported is
\* never returned.
C20_SelectorResult ==
    SelectorOver =>
        LET Such(k) == OUTPUT_GAMEPADS[k].is_supported /\ ArgNames(k)
            found == Len(args) = 2 /\ \E k \in 1..Len(OUTPUT_GAMEPADS) : Such(k)
        IN  /\ ppc = "returned" <=> found
            /\ ppc = "returned" =>
                  /\ selected \in 1..Len(OUTPUT_GAMEPADS)
                  /\ Such(selected)
                  /\ \A k \in 1..(selected - 1) : ~Such(k)
                  /\ exit_code = 0
            /\ ppc = "exited" => (exit_code = 1 /\ selected = 0)

\* C20 witness: the second descriptor was returned for an argument of several
\* characters, the first one being supported too but not named by the argument.
C20_Witness ==
    /\ ppc = "returned"
    /\ selected = 2
    /\ Len(args[2]) >= 2
    /\ OUTPUT_GAMEPADS[1].is_supported

\* C17: a call of the decode operation with a buffer shorter than the
\* descriptor's min_bt_report_size returns an error outcome.
C17_ShortInputReturnsError ==
    (ppc = "decode_over" /\ Len(bt_input) < descriptor.min_bt_report_size)
        => call_result.kind = "error"

BluetoothDevices == {k \in 1..Len(device_list) : device_list[k].bus_type = "Bluetooth"}

SupportedBluetooth ==
    {k \in BluetoothDevices : <<device_list[k].vid, device_list[k].pid>> = PS5Pair}

FirstSupportedBluetooth == CHOOSE k \in SupportedBluetooth : \A j \in SupportedBluetooth : k <= j

\* C21: get_hid_gamepad returns NoBTDevice iff no device is on Bluetooth,
\* NoSupportedDevice iff there are Bluetooth devices and none is supported, and
\* otherwise what opening the first supported Bluetooth device gives: Ok with
\* the handle of that device and its model, or OpenFailed if the OS refuses it;
\* devices on another transport have no influence.
C21_OutcomeClassification ==
    ppc = "located" =>
        /\ (located.kind = "NoBTDevice") <=> (BluetoothDevices = {})
        /\ (located.kind = "NoSupportedDevice") <=>
               (BluetoothDevices # {} /\ SupportedBluetooth = {})
        /\ SupportedBluetooth # {} =>
               IF device_list[FirstSupportedBluetooth].opens
                  THEN located = [kind |-> "Ok", hid_device |-> FirstSupportedBluetooth,
                                  model |-> "PS5"]
                  ELSE located = [kind |-> "OpenFailed"]

\* The unsupported Bluetooth devices met before the search stops: those that
\* precede the first supported Bluetooth device, or all of them if none is supported.
UnsupportedMet ==
    {k \in BluetoothDevices \ SupportedBluetooth :
        SupportedBluetooth # {} => k < FirstSupportedBluetooth}

\* The sequence holds exactly the elements of the set, in increasing order.
IsSortedSeqOf(seq, set) ==
    /\ Len(seq) = Cardinality(set)
    /\ {seq[i] : i \in 1..Len(seq)} = set
    /\ \A i \in 1..Len(seq) - 1 : seq[i] < seq[i + 1]

\* How often the list of unsupported devices was printed.
UnsupportedLogs ==
    Cardinality({i \in 1..Len(stdout) :
        stdout[i] = <<"All of these devices are connected but not supported:">>})

\* Every accumulated device has its line after the heading.
UnsupportedLogged ==
    /\ UnsupportedLogs = 1
    /\ Len(stdout) = 1 + Len(error_info)
    /\ \A i \in 1..Len(error_info) :
          stdout[i + 1] = <<"vendor", device_list[error_info[i]].vid,
                            "product", device_list[error_info[i]].pid>>

\* C22 as stated: every unsupported Bluetooth device met is accumulated, a
\* supported device is found however many unsupported ones precede it, and the
\* accumulated devices are logged once in every call that met one.
C22_LoggedOncePerCall ==
    ppc = "located" =>
        /\ IsSortedSeqOf(error_info, UnsupportedMet)
        /\ (SupportedBluetooth # {}) <=> (located.kind \in {"Ok", "OpenFailed"})
        /\ error_info # <<>> => UnsupportedLogged

\* C22 (amended): every unsupported Bluetooth device met is accumulated and the
\* search goes on, so a supported device is found however many unsupported ones
\* precede it; the accumulated devices are logged once, after the search, in the
\* calls that return NoSupportedDevice, and are not logged at all in a call
\* that found a supported device.
C22_UnsupportedDoNotAbort ==
    ppc = "located" =>
        /\ IsSortedSeqOf(error_info, UnsupportedMet)
        /\ (SupportedBluetooth # {}) <=> (located.kind \in {"Ok", "OpenFailed"})
        /\ located.kind = "NoSupportedDevice" => UnsupportedLogged
        /\ located.kind # "NoSupportedDevice" => UnsupportedLogs = 0

\* A supported device was found and opened behind two unsupported ones.
C22_Witness ==
    /\ ppc = "located"
    /\ located.kind = "Ok"
    /\ Len(error_info) = 2
    /\ FirstSupportedBluetooth = 3

(* --------------------------- archive main loop -------------------------- *)
\* The slot holds a controller whose thread_handle is Some.
HasHandle(s) == ctrls[s] # None /\ ctrls[s][1].thread_handle = "Some"

\* At most one thread was spawned for the slot, and it has one exactly when
\* its controller holds a handle.
AtMostOneThread ==
    mpc # "idle" =>
       \A s \in Slots :
          /\ Len(threads[s]) <= 1
          /\ (Len(threads[s]) = 1) <=> HasHandle(s)

\* A thread is added for a slot only by handle_threads, on a controller that
\* has no handle before the step and has one after it.
SpawnSetsHandle ==
    \A s \in Slots :
       (Len(threads'[s]) # Len(threads[s])) =>
          /\ mpc = "handle_threads"
          /\ ctrls[s] # None
          /\ ctrls[s][1].thread_handle = "None"
          /\ ctrls'[s][1].thread_handle = "Some"
          /\ Len(threads'[s]) = Len(threads[s]) + 1

\* C23: however often the loop of the archive main runs, at most one reader
\* thread has been spawned for each slot: a thread is spawned only in
\* handle_threads, only for a controller whose thread_handle is None, and the
\* handle is Some after the same step.
C23_OneThreadPerController == []AtMostOneThread /\ [][SpawnSetsHandle]_vars

\* Both slots have their thread and handle_threads has run again, several
\* times, on the same collection; one of the threads has already returned.
C23_Witness ==
    /\ mpc = "sleep"
    /\ loading_show = 5
    /\ \A s \in Slots : Len(threads[s]) = 1 /\ HasHandle(s)
    /\ threads["first"] = <<"returned">>

(* ------------------- interval writer: what is written ------------------- *)
\* The encoded reports of the values the slot can hold.
EncodedReports == {universal_gamepad_to_usb_output(g) : g \in 0..MaxSlot}

\* C24: whenever write_to_gadget_intervalic writes, the buffer is a complete
\* encoded report, never the cleared buffer, and encodes the slot value the
\* writer sampled since its previous write (since the start for the first
\* one); the slot was sampled exactly once since then.
C24_WrittenBufferFresh ==
    /\ ipc = "write" =>
          /\ usb_output # <<>>
          /\ samples = 1
          /\ sampled \in 0..slot
          /\ usb_output = universal_gamepad_to_usb_output(sampled)
    /\ ipc \notin {"idle"} => \A i \in 1..Len(hidg0) : hidg0[i] \in EncodedReports
    /\ ipc \notin {"idle"} => samples <= 1

\* The second write of a run is due, of the value sampled after the first
\* write, and the reader has put a newer value into the slot since.
C24_Witness ==
    /\ ipc = "write"
    /\ Len(hidg0) = 1
    /\ samples = 1
    /\ hidg0[1] = universal_gamepad_to_usb_output(0)
    /\ usb_output = universal_gamepad_to_usb_output(0)
    /\ slot = 1

(* ------------------------- process_input: frame ------------------------- *)
\* C25: for model PS5 process_input overwrites all six field groups of the
\* output, so the result is the decoding of the input bytes alone, whatever
\* the output held before; for model PS4 the output is left as it was.
C25_FrameAndFreshness ==
    ppc = "processed" =>
        /\ model = "PS5" =>
              /\ DOMAIN output = FieldGroups
              /\ \A g \in FieldGroups : output[g] = _process_input_ps5(input)[g]
        /\ model = "PS4" => output = output_before

\* A PS5 report at rest was decoded into an output that held a pressed button
\* before, and nothing of the earlier value is left.
C25_Witness ==
    /\ ppc = "processed"
    /\ model = "PS5"
    /\ input = NeutralInput
    /\ output_before.buttons.lower
    /\ ~output.buttons.lower
    /\ output = NeutralGamepad

(* ------------------------ Bluetooth scan flow --------------------------- *)
\* After the flag is cleared at most one more handle_bt_scan_output call is
\* begun; the flow waits in join or has returned only with the flag cleared,
\* and has returned only with the scan thread ended; the scan thread is past
\* its read loop only if bluetoothctl's stdout has ended and was read empty.
ScanFlowSafety ==
    fpc # "idle" =>
       /\ calls_after_clear <= 1
       /\ fpc \in {"join", "returned"} => ~ctrlc
       /\ fpc = "returned" => tpc = "ended"
       /\ tpc \in {"stderr", "ended"} => (~stream.open /\ stream.lines = 0)

\* The scan thread leaves its read loop only in a step that finds the stream
\* ended, and no step that clears the flag or sets request_scan_stop moves the
\* scan thread.
ScanEndsOnlyAtEof ==
    /\ (tpc = "lines" /\ tpc' # "lines" /\ fpc' # "exited") =>
          (~stream.open /\ stream.lines = 0 /\ tpc' = "stderr")
    /\ (ctrlc' # ctrlc \/ request_scan_stop' # request_scan_stop) => tpc' = tpc

\* C26: after Ctrl-C clears the flag the polling loop of _bt_program_flow
\* begins at most one more handle_bt_scan_output call and is left;
\* _bt_program_flow returns only after the scan thread has ended; bt_scan_on
\* ends only when bluetoothctl's output ends, never because the flag was
\* cleared or request_scan_stop was set.
C26_ScanFlowShutdown ==
    /\ []ScanFlowSafety
    /\ [][ScanEndsOnlyAtEof]_vars
    /\ (fpc \in {"load", "handle_bt_scan_output", "sleep"} /\ ~ctrlc)
          ~> (fpc \in {"join", "returned", "exited"})

\* Ctrl-C was pressed and the stop flag set, one more call was made after it
\* and the loop was left, but bluetoothctl still runs: the scan thread still
\* reads and the flow waits in join.
C26_Witness ==
    /\ fpc = "join"
    /\ ~ctrlc
    /\ request_scan_stop
    /\ calls_after_clear = 1
    /\ tpc = "lines"
    /\ stream.open
    /\ scan_output = 1

==========================================================================
